---- MODULE Spec2Model ----
(***************************************************************************)
(* lxqt-brightness: one run of the command-line tool (src/src/main.rs).    *)
(*                                                                         *)
(* The program is sequential.  A run parses the command line, optionally   *)
(* reads the brightness and issues one xbacklight control command, then    *)
(* reads the brightness again and calls notify-send.  Every external       *)
(* process is a step whose outcome (cannot be spawned, non-zero exit, zero *)
(* exit and the text it printed) is chosen by the environment.             *)
(*                                                                         *)
(* Option<T> is modelled as a sequence: <<>> is None, <<x>> is Some(x).    *)
(* Text is modelled as a sequence of one-character strings.                *)
(***************************************************************************)
EXTENDS Integers, Sequences, FiniteSets, TLC

VARIABLES
    argv,        \* the command line as typed: which flags, with which values
    args,        \* the parsed Args (main.rs:17-99)
    pc,          \* position of the run in main / adjust_brightness / display_notification
    query,       \* outcome of the most recent `xbacklight -get` process
    current,     \* `current` of adjust_brightness (main.rs:208)
    brightness,  \* `brightness` of display_notification (main.rs:185)
    log,         \* every external process invoked so far, in order
    exitCode     \* the process exit code, <<>> while running

vars == <<argv, args, pc, query, current, brightness, log, exitCode>>

None == <<>>

Some(x) == <<x>>

IsSome(o) == o # <<>>

Unwrap(o) == o[1]

----------------------------------------------------------------------------
(* Program constants.                                                      *)

U8_MAX == 255

DefaultMissingPercentage == 5

SetRangeMin == 1

SetRangeMax == 100

DefaultTimeout == 2000

DefaultFadeTime == 100

DefaultSteps == 25

----------------------------------------------------------------------------
(* Bounds of the model.                                                    *)

\* Longest text printed by `xbacklight -get` in the exhaustive reader runs.
MaxOutLen == 4

----------------------------------------------------------------------------
(* Text and number conversion: str::trim, str::parse::<f32>, f32::round,   *)
(* `as u8`.                                                                *)

DigitChars == {"0", "1", "2", "3", "4", "5", "6", "7", "8", "9"}

WhiteChars == {" ", "\n", "\t", "\r"}

DigitVal(c) ==
    CASE c = "0" -> 0 [] c = "1" -> 1 [] c = "2" -> 2 [] c = "3" -> 3
      [] c = "4" -> 4 [] c = "5" -> 5 [] c = "6" -> 6 [] c = "7" -> 7
      [] c = "8" -> 8 [] c = "9" -> 9

RECURSIVE Pow10(_)
Pow10(n) == IF n = 0 THEN 1 ELSE 10 * Pow10(n - 1)

RECURSIVE TrimStart(_)
TrimStart(s) ==
    IF s # <<>> /\ Head(s) \in WhiteChars THEN TrimStart(Tail(s)) ELSE s

RECURSIVE TrimEnd(_)
TrimEnd(s) ==
    IF s # <<>> /\ s[Len(s)] \in WhiteChars
    THEN TrimEnd(SubSeq(s, 1, Len(s) - 1))
    ELSE s

\* str::trim
Trim(s) == TrimEnd(TrimStart(s))

\* The scan of an unsigned decimal literal, one character at a time.
\* st is "int" before the point and "frac" after it; nd counts the digits
\* seen, mant accumulates them, scale counts the digits after the point.
\* The result is None on the first character that cannot continue a number.
RECURSIVE ScanDecimal(_, _, _, _, _)
ScanDecimal(s, st, nd, mant, scale) ==
    IF s = <<>>
    THEN IF nd > 0 THEN Some([mant |-> mant, scale |-> scale]) ELSE None
    ELSE LET c == Head(s) IN
         IF c \in DigitChars
         THEN ScanDecimal(Tail(s), st, nd + 1, 10 * mant + DigitVal(c),
                          IF st = "frac" THEN scale + 1 ELSE scale)
         ELSE IF c = "." /\ st = "int"
         THEN ScanDecimal(Tail(s), "frac", nd, mant, scale)
         ELSE None

\* str::parse::<f32> on decimal text: an optional sign, then digits with an
\* optional point (at least one digit).  The value is kept exactly as
\* sign * mant / 10^scale: for the short texts explored (fewer than seven
\* significant digits) the nearest f32 rounds to the same integer as the
\* exact decimal.  Exponents and the words inf / nan, which the Rust parser
\* also accepts, use characters outside the alphabet explored.
ParseF32(s) ==
    LET signed == s # <<>> /\ Head(s) \in {"+", "-"}
        neg    == s # <<>> /\ Head(s) = "-"
        body   == IF signed THEN Tail(s) ELSE s
        r      == ScanDecimal(body, "int", 0, 0, 0)
    IN  IF IsSome(r)
        THEN Some([neg |-> neg, mant |-> Unwrap(r).mant, scale |-> Unwrap(r).scale])
        ELSE None

\* Mutation of RoundF32: the fraction is dropped instead of rounded.
RoundF32_truncating(v) ==
    LET q == v.mant \div Pow10(v.scale)
    IN  IF v.neg THEN 0 - q ELSE q

\* f32::round: to the nearest integer, halves away from zero.
RoundF32(v) ==
    LET q == (2 * v.mant + Pow10(v.scale)) \div (2 * Pow10(v.scale))
    IN  IF v.neg THEN 0 - q ELSE q

\* `as u8` on a float: saturating.
AsU8(n) == IF n < 0 THEN 0 ELSE IF n > U8_MAX THEN U8_MAX ELSE n

\* u8::saturating_sub
SaturatingSub(a, b) == IF a >= b THEN a - b ELSE 0

\* Ord::max
Max(a, b) == IF a >= b THEN a ELSE b

----------------------------------------------------------------------------
(* External processes.                                                     *)

ExitStatuses == {"spawn_failed", "exit_nonzero", "exit_zero"}

\* What one `xbacklight -get` process can do: fail to start, exit non-zero,
\* or exit zero having printed stdout (valid UTF-8 or not).
QueryOutcome(status, utf8, stdout) ==
    [status |-> status, utf8 |-> utf8, stdout |-> stdout]

QueryFailures ==
    { QueryOutcome("spawn_failed", TRUE, <<>>),
      QueryOutcome("exit_nonzero", TRUE, <<>>),
      QueryOutcome("exit_zero", FALSE, <<>>) }

\* get_current_brightness, applied to the outcome of its query process.
get_current_brightness(o) ==
    IF o.status = "spawn_failed" THEN None
    ELSE IF o.status # "exit_zero" THEN None
    ELSE IF ~o.utf8 THEN None
    ELSE LET v == ParseF32(Trim(o.stdout))
         IN  IF IsSome(v) THEN Some(AsU8(RoundF32(Unwrap(v)))) ELSE None

\* Mutation of icon_for: both bucket boundaries moved up by one.
icon_for_shifted(b) ==
    IF b \in 0..33 THEN "display-brightness-low-symbolic"
    ELSE IF b \in 34..66 THEN "display-brightness-medium-symbolic"
    ELSE "display-brightness-high-symbolic"

icon_for(b) ==
    IF b \in 0..32 THEN "display-brightness-low-symbolic"
    ELSE IF b \in 33..65 THEN "display-brightness-medium-symbolic"
    ELSE "display-brightness-high-symbolic"

exit_with(success) == IF success THEN 0 ELSE 1

----------------------------------------------------------------------------
(* The command line and its validation by the derived clap parser.         *)

\* Values typed after --increase, --decrease and --set in the runs explored.
ArgSamples == {0, 1, 5, 10, 100, 101, 200, 256}

\* One value-taking flag as typed: absent, given without a value, or given
\* with a number.
RawFlags ==
    {[present |-> FALSE, val |-> None]}
    \cup {[present |-> TRUE, val |-> v] : v \in {None} \cup {Some(n) : n \in ArgSamples}}

RawArgvs == [increase : RawFlags, decrease : RawFlags, set : RawFlags, get : BOOLEAN]

ModeNames == {"increase", "decrease", "set", "get"}

\* The conflicts_with_all attribute of each mode argument, as declared.
ConflictsWithAll ==
    [increase |-> {"set", "get"},
     decrease |-> {"set", "get"},
     set      |-> {"increase", "decrease", "get"},
     get      |-> {"increase", "decrease", "set"}]

\* clap treats a declared conflict as holding in both directions.
Conflict(a, b) == b \in ConflictsWithAll[a] \/ a \in ConflictsWithAll[b]

Present(raw, m) == IF m = "get" THEN raw.get ELSE raw[m].present

ConflictError(raw) ==
    \E a \in ModeNames, b \in ModeNames :
        a # b /\ Present(raw, a) /\ Present(raw, b) /\ Conflict(a, b)

\* increase / decrease: Option<u8>, num_args 0..=1, default_missing_value 5.
\* The result is <<ok, value>>.
ParsePercentage(f) ==
    IF ~f.present THEN <<TRUE, None>>
    ELSE IF f.val = None THEN <<TRUE, Some(DefaultMissingPercentage)>>
    ELSE IF Unwrap(f.val) \in 0..U8_MAX THEN <<TRUE, f.val>>
    ELSE <<FALSE, None>>

\* set: Option<u8> with value_parser u8 range 1..=100; a value is required.
ParseSet(f) ==
    IF ~f.present THEN <<TRUE, None>>
    ELSE IF f.val = None THEN <<FALSE, None>>
    ELSE IF Unwrap(f.val) \in SetRangeMin..SetRangeMax THEN <<TRUE, f.val>>
    ELSE <<FALSE, None>>

ValueError(raw) ==
    \/ ~ParsePercentage(raw.increase)[1]
    \/ ~ParsePercentage(raw.decrease)[1]
    \/ ~ParseSet(raw.set)[1]

\* The Args struct built from an accepted command line.
Args(raw) ==
    [increase  |-> ParsePercentage(raw.increase)[2],
     decrease  |-> ParsePercentage(raw.decrease)[2],
     set       |-> ParseSet(raw.set)[2],
     get       |-> raw.get,
     timeout   |-> DefaultTimeout,
     fade_time |-> DefaultFadeTime,
     steps     |-> DefaultSteps]

NoArgs ==
    [increase |-> None, decrease |-> None, set |-> None, get |-> FALSE,
     timeout |-> DefaultTimeout, fade_time |-> DefaultFadeTime, steps |-> DefaultSteps]

----------------------------------------------------------------------------
(* Log entries: one per external process invoked.                          *)

QueryEntry(site, o) ==
    [site |-> site, tool |-> "xbacklight", mode |-> "-get", out |-> o,
     result |-> get_current_brightness(o)]

\* run_brightness_cmd: xbacklight <mode> <value> -time <t> -steps <s>.
run_brightness_cmd(mode, value, a, status) ==
    [site |-> "control", tool |-> "xbacklight", mode |-> mode, value |-> value,
     time |-> a.fade_time, steps |-> a.steps, status |-> status]

\* notify-send --icon <icon> --expire-time <t> "Brightness: <b>%"
NotifyEntry(b, timeout, status) ==
    [site |-> "notify_send", tool |-> "notify-send", icon |-> icon_for(b),
     summary_pct |-> b, expire_time |-> timeout, status |-> status]

\* Mutation of adjust_mode_value: the decrease target is not floored at 1.
adjust_mode_value_unfloored(a, cur) ==
    IF IsSome(a.increase)
    THEN IF IsSome(cur) /\ Unwrap(cur) <= 1
         THEN Some(<<"-set", Unwrap(a.increase)>>)
         ELSE Some(<<"-inc", Unwrap(a.increase)>>)
    ELSE IF IsSome(a.decrease)
    THEN Some(<<"-set",
                IF IsSome(cur)
                THEN SaturatingSub(Unwrap(cur), Unwrap(a.decrease))
                ELSE Unwrap(a.decrease)>>)
    ELSE None

\* Mutation of adjust_mode_value: the increase switches to an absolute set
\* only at a current brightness of 0.
adjust_mode_value_strict(a, cur) ==
    IF IsSome(a.increase)
    THEN IF IsSome(cur) /\ Unwrap(cur) < 1
         THEN Some(<<"-set", Unwrap(a.increase)>>)
         ELSE Some(<<"-inc", Unwrap(a.increase)>>)
    ELSE IF IsSome(a.decrease)
    THEN Some(<<"-set",
                IF IsSome(cur)
                THEN Max(SaturatingSub(Unwrap(cur), Unwrap(a.decrease)), 1)
                ELSE Unwrap(a.decrease)>>)
    ELSE None

\* The (mode, value) pair chosen by adjust_brightness; None where the
\* function returns true without running a command.
adjust_mode_value(a, cur) ==
    IF IsSome(a.increase)
    THEN IF IsSome(cur) /\ Unwrap(cur) <= 1
         THEN Some(<<"-set", Unwrap(a.increase)>>)
         ELSE Some(<<"-inc", Unwrap(a.increase)>>)
    ELSE IF IsSome(a.decrease)
    THEN Some(<<"-set",
                IF IsSome(cur)
                THEN Max(SaturatingSub(Unwrap(cur), Unwrap(a.decrease)), 1)
                ELSE Unwrap(a.decrease)>>)
    ELSE None

\* Texts printed by `xbacklight -get` in the whole-run specification.
QuerySamples ==
    { <<"0", "\n">>, <<"1", "\n">>, <<"1", ".", "6">>, <<"5">>,
      <<"3", "2", ".", "4">>, <<"3", "2", ".", "5">>,
      <<"4", "7", ".", "6", "\n">>,
      <<"6", "5", ".", "4">>, <<"6", "5", ".", "5">>,
      <<"1", "0", "0", "\n">>, <<"3", "0", "0">>,
      <<"-", "5">>, <<"a", "b", "c">>, <<>> }

QueryOutcomes ==
    QueryFailures \cup {QueryOutcome("exit_zero", TRUE, s) : s \in QuerySamples}

----------------------------------------------------------------------------
(* The run.                                                                *)

Init ==
    /\ argv \in RawArgvs
    /\ args = NoArgs
    /\ pc = "parse"
    /\ query = QueryOutcome("spawn_failed", TRUE, <<>>)
    /\ current = None
    /\ brightness = None
    /\ log = <<>>
    /\ exitCode = None

Exit(code) == pc' = "exited" /\ exitCode' = Some(code)

\* Args::parse() (main.rs:259): a command line clap rejects ends the run
\* with clap's usage exit code before main goes on.
Args_parse ==
    /\ pc = "parse"
    /\ IF ConflictError(argv) \/ ValueError(argv)
       THEN /\ Exit(2)
            /\ UNCHANGED args
       ELSE /\ args' = Args(argv)
            /\ pc' = "main"
            /\ UNCHANGED exitCode
    /\ UNCHANGED <<argv, query, current, brightness, log>>

\* main (main.rs:261-277) up to its first external call.
main ==
    /\ pc = "main"
    /\ pc' = IF args.get THEN "notify_read"
             ELSE IF IsSome(args.set) THEN "set_brightness"
             ELSE IF IsSome(args.increase) \/ IsSome(args.decrease) THEN "adjust_read"
             ELSE "notify_read"
    /\ UNCHANGED <<argv, args, query, current, brightness, log, exitCode>>

\* Mutation of set_brightness: a failed command does not end the run.
set_brightness_continuing ==
    /\ pc = "set_brightness"
    /\ \E st \in ExitStatuses :
        log' = Append(log, run_brightness_cmd("-set", Unwrap(args.set), args, st))
    /\ pc' = "notify_read"
    /\ UNCHANGED <<argv, args, query, current, brightness, exitCode>>

\* set_brightness(value) and main's handling of its result (main.rs:265-269).
set_brightness ==
    /\ pc = "set_brightness"
    /\ \E st \in ExitStatuses :
        /\ log' = Append(log, run_brightness_cmd("-set", Unwrap(args.set), args, st))
        /\ IF st = "exit_zero"
           THEN pc' = "notify_read" /\ UNCHANGED exitCode
           ELSE Exit(exit_with(FALSE))
    /\ UNCHANGED <<argv, args, query, current, brightness>>

\* adjust_brightness, first line: let current = get_current_brightness().
adjust_brightness_read ==
    /\ pc = "adjust_read"
    /\ \E o \in QueryOutcomes :
        /\ query' = o
        /\ current' = get_current_brightness(o)
        /\ log' = Append(log, QueryEntry("adjust_read", o))
    /\ pc' = "adjust_cmd"
    /\ UNCHANGED <<argv, args, brightness, exitCode>>

\* adjust_brightness, the rest, and main's handling of its result
\* (main.rs:270-275).
adjust_brightness_cmd ==
    /\ pc = "adjust_cmd"
    /\ LET mv == adjust_mode_value(args, current) IN
       IF mv = None
       THEN pc' = "notify_read" /\ UNCHANGED <<log, exitCode>>
       ELSE \E st \in ExitStatuses :
            /\ log' = Append(log, run_brightness_cmd(Unwrap(mv)[1], Unwrap(mv)[2], args, st))
            /\ IF st = "exit_zero"
               THEN pc' = "notify_read" /\ UNCHANGED exitCode
               ELSE Exit(exit_with(FALSE))
    /\ UNCHANGED <<argv, args, query, current, brightness>>

\* Mutation of display_notification_read: an unreadable brightness is shown
\* as 0 instead of ending the notify step.
display_notification_read_defaulting ==
    /\ pc = "notify_read"
    /\ \E o \in QueryOutcomes :
        /\ query' = o
        /\ brightness' = IF IsSome(get_current_brightness(o))
                         THEN get_current_brightness(o)
                         ELSE Some(0)
        /\ log' = Append(log, QueryEntry("notify_read", o))
    /\ pc' = "notify_send"
    /\ UNCHANGED <<argv, args, current, exitCode>>

\* display_notification, first line: let brightness = get_current_brightness()?.
\* None returns at once and main exits with failure.
display_notification_read ==
    /\ pc = "notify_read"
    /\ \E o \in QueryOutcomes :
        /\ query' = o
        /\ brightness' = get_current_brightness(o)
        /\ log' = Append(log, QueryEntry("notify_read", o))
        /\ IF IsSome(get_current_brightness(o))
           THEN pc' = "notify_send" /\ UNCHANGED exitCode
           ELSE Exit(exit_with(FALSE))
    /\ UNCHANGED <<argv, args, current>>

\* Mutation of display_notification_send: the status of notify-send is
\* ignored.
display_notification_send_unchecked ==
    /\ pc = "notify_send"
    /\ \E st \in ExitStatuses :
        /\ log' = Append(log, NotifyEntry(Unwrap(brightness), args.timeout, st))
        /\ Exit(exit_with(TRUE))
    /\ UNCHANGED <<argv, args, query, current, brightness>>

\* display_notification, the notify-send call, and main's exit_with on the
\* returned option.
display_notification_send ==
    /\ pc = "notify_send"
    /\ \E st \in ExitStatuses :
        /\ log' = Append(log, NotifyEntry(Unwrap(brightness), args.timeout, st))
        /\ Exit(exit_with(st = "exit_zero"))
    /\ UNCHANGED <<argv, args, query, current, brightness>>

Next ==
    \/ Args_parse
    \/ main
    \/ set_brightness
    \/ adjust_brightness_read
    \/ adjust_brightness_cmd
    \/ display_notification_read
    \/ display_notification_send

Spec == Init /\ [][Next]_vars

----------------------------------------------------------------------------
(* The brightness reader alone, on every short text over a small alphabet. *)

ReaderAlphabet == {"-", ".", "0", "5", "7", "x", "\n"}

ReaderTexts == UNION {[1..k -> ReaderAlphabet] : k \in 0..MaxOutLen}

ReaderOutcomes ==
    QueryFailures
    \cup {QueryOutcome("exit_zero", TRUE, s) : s \in ReaderTexts}
    \cup {QueryOutcome("exit_nonzero", TRUE, s) : s \in ReaderTexts}

InitReader ==
    /\ argv = [increase |-> [present |-> TRUE, val |-> None],
               decrease |-> [present |-> FALSE, val |-> None],
               set      |-> [present |-> FALSE, val |-> None],
               get      |-> FALSE]
    /\ args = Args(argv)
    /\ pc = "adjust_read"
    /\ query \in ReaderOutcomes
    /\ current = None
    /\ brightness = None
    /\ log = <<>>
    /\ exitCode = None

\* let current = get_current_brightness() (main.rs:208), with the query
\* process's outcome already drawn into `query`.
get_current_brightness_call ==
    /\ pc = "adjust_read"
    /\ current' = get_current_brightness(query)
    /\ log' = Append(log, QueryEntry("adjust_read", query))
    /\ pc' = "adjust_cmd"
    /\ UNCHANGED <<argv, args, query, brightness, exitCode>>

NextReader == get_current_brightness_call

SpecReader == InitReader /\ [][NextReader]_vars

----------------------------------------------------------------------------
(* Vocabulary of the properties.                                           *)

Sites(site) == {i \in DOMAIN log : log[i].site = site}

Controls == Sites("control")

\* An invoked process succeeded: a query exited zero with text that parsed,
\* any other command exited zero.
Succeeded(e) ==
    IF e.site \in {"adjust_read", "notify_read"}
    THEN IsSome(e.result)
    ELSE e.status = "exit_zero"

Exited == pc = "exited"

\* The command line was rejected by the parser.
Rejected == Exited /\ exitCode = Some(2)

\* The command line passed validation and main is running or has run.
Validated == pc # "parse" /\ ~Rejected

\* adjust_brightness has returned.
Adjusted == Validated /\ pc \in {"notify_read", "notify_send", "exited"}

ModesTyped(raw) == {m \in ModeNames : Present(raw, m)}

ModesActive(a) ==
    {m \in {"increase", "decrease", "set"} : IsSome(a[m])}
    \cup (IF a.get THEN {"get"} ELSE {})

HasPrimary(a) == ~a.get /\ (IsSome(a.set) \/ IsSome(a.increase) \/ IsSome(a.decrease))

IsDigits(s) == \A i \in DOMAIN s : s[i] \in DigitChars

RECURSIVE NumberOf(_)
NumberOf(s) ==
    IF s = <<>> THEN 0
    ELSE 10 * NumberOf(SubSeq(s, 1, Len(s) - 1)) + DigitVal(s[Len(s)])

\* The ways to read s as digits with at most one point among them and at
\* least one digit: each is <<integer digits, fraction digits>>.
DecimalSplits(s) ==
    { sp \in {<<SubSeq(s, 1, k), SubSeq(s, k + 2, Len(s))>> : k \in 0..Len(s)} :
        /\ IsDigits(sp[1]) /\ IsDigits(sp[2])
        /\ Len(sp[1]) + Len(sp[2]) > 0
        /\ \/ Len(sp[1]) = Len(s)
           \/ (Len(sp[1]) < Len(s) /\ s[Len(sp[1]) + 1] = ".") }

IsUnsignedDecimal(s) == DecimalSplits(s) # {}

IsSignedDecimal(s) ==
    \/ IsUnsignedDecimal(s)
    \/ (s # <<>> /\ Head(s) \in {"+", "-"} /\ IsUnsignedDecimal(Tail(s)))

\* n is the integer nearest to the unsigned decimal s (a half goes up).
IsNearest(s, n) ==
    \E sp \in DecimalSplits(s) :
        LET m == NumberOf(sp[1] \o sp[2])
            P == Pow10(Len(sp[2]))
        IN  2 * m - P < 2 * n * P /\ 2 * n * P <= 2 * m + P

\* The unsigned decimal s is at least n - 1/2.
IsAtLeastNear(s, n) ==
    \E sp \in DecimalSplits(s) :
        2 * n * Pow10(Len(sp[2])) <= 2 * NumberOf(sp[1] \o sp[2]) + Pow10(Len(sp[2]))

QuerySucceeded(o) == o.status = "exit_zero" /\ o.utf8

IconExpected(p) ==
    IF p <= 32 THEN "display-brightness-low-symbolic"
    ELSE IF p <= 65 THEN "display-brightness-medium-symbolic"
    ELSE "display-brightness-high-symbolic"

----------------------------------------------------------------------------
(* Properties.                                                             *)

\* C1: a command line that supplies two or more of the modes set, increase,
\* decrease and get is rejected by the parser before any external process
\* is invoked, and a run that gets past the parser has at most one mode
\* active.
C1_ConflictingModesRejected ==
    /\ Cardinality(ModesTyped(argv)) >= 2 =>
          /\ log = <<>>
          /\ pc \in {"parse", "exited"}
          /\ Exited => Rejected
    /\ Validated => Cardinality(ModesActive(args)) <= 1

\* C2: no backlight control command issued is an absolute set to a value
\* below 1.
C2_NeverSetBelowOne ==
    \A i \in Controls : log[i].mode = "-set" => log[i].value >= 1

\* C3: a relative decrease is never issued; and once adjust_brightness has
\* run on a decrease by d with the current brightness read as c, exactly one
\* control command has been issued, an absolute set to max(c - d, 1).
C3_DecreaseFlooredSet ==
    /\ \A i \in Controls : log[i].mode # "-dec"
    /\ (Adjusted /\ IsSome(args.decrease) /\ ~IsSome(args.increase) /\ IsSome(current)) =>
          LET c == Unwrap(current)
              d == Unwrap(args.decrease)
          IN  /\ Cardinality(Controls) = 1
              /\ \A i \in Controls :
                    /\ log[i].mode = "-set"
                    /\ log[i].value = (IF c - d > 1 THEN c - d ELSE 1)

\* A decrease by 10 from a current brightness of 5 has issued a set to 1.
C3_Witness ==
    /\ Adjusted
    /\ args.decrease = Some(10) /\ args.increase = None
    /\ current = Some(5)
    /\ \E i \in Controls : log[i].mode = "-set" /\ log[i].value = 1

\* C4: once adjust_brightness has run on an increase by d, exactly one
\* control command has been issued: an absolute set to d if the current
\* brightness was read and is at most 1, a relative increase by d if it is
\* at least 2 or could not be read.
C4_IncreaseSetOrRelative ==
    (Adjusted /\ IsSome(args.increase)) =>
        LET d == Unwrap(args.increase) IN
        /\ Cardinality(Controls) = 1
        /\ \A i \in Controls :
              /\ log[i].value = d
              /\ (IsSome(current) /\ Unwrap(current) <= 1) => log[i].mode = "-set"
              /\ (IsSome(current) /\ Unwrap(current) >= 2) => log[i].mode = "-inc"
              /\ current = None => log[i].mode = "-inc"

\* An increase by 5 from a current brightness of 1 has issued a set to 5.
C4_Witness ==
    /\ Adjusted
    /\ args.increase = Some(5)
    /\ current = Some(1)
    /\ \E i \in Controls : log[i].mode = "-set" /\ log[i].value = 5

\* C5 as stated: a validated run exits 0 exactly when every external command
\* it invoked succeeded and every brightness output it read parsed, the read
\* before an increase or decrease included; otherwise it exits 1.
C5_ExitZeroIffAllSucceeded ==
    (Exited /\ Validated) =>
        /\ exitCode \in {Some(0), Some(1)}
        /\ exitCode = Some(0) <=> \A i \in DOMAIN log : Succeeded(log[i])

\* C5 amended: a validated run exits 0 exactly when the control command (if
\* one was issued), the brightness read of the notify step and notify-send
\* all succeeded, and it then ends with a successful notify-send; otherwise
\* it exits 1.  The read made before an increase or decrease does not count.
C5_ExitZeroIffStepsSucceeded ==
    (Exited /\ Validated) =>
        /\ exitCode \in {Some(0), Some(1)}
        /\ exitCode = Some(0) <=>
              \A i \in DOMAIN log : log[i].site # "adjust_read" => Succeeded(log[i])
        /\ exitCode = Some(0) =>
              /\ log # <<>>
              /\ log[Len(log)].site = "notify_send"
              /\ Succeeded(log[Len(log)])

\* A run whose read before the adjustment failed has exited 0.
C5_Witness ==
    /\ Exited /\ exitCode = Some(0)
    /\ \E i \in Sites("adjust_read") : ~Succeeded(log[i])

\* C6 as stated: a validated run executes one primary action for set,
\* increase or decrease (none for get) and attempts the brightness read of
\* the notify step whether or not the primary action succeeded.
C6_NotifyAlwaysAttempted ==
    (Exited /\ Validated) =>
        /\ Cardinality(Controls) = (IF HasPrimary(args) THEN 1 ELSE 0)
        /\ Sites("notify_read") # {}

\* C6 amended: a validated run executes one primary action for set, increase
\* or decrease (none for get); the brightness read of the notify step is
\* attempted, once and after the primary action, exactly when the primary
\* action succeeded or there was none; a failed primary action ends the run
\* with exit code 1.
C6_NotifyIffPrimarySucceeded ==
    (Exited /\ Validated) =>
        /\ Cardinality(Controls) = (IF HasPrimary(args) THEN 1 ELSE 0)
        /\ Sites("notify_read") # {} <=> \A i \in Controls : Succeeded(log[i])
        /\ Cardinality(Sites("notify_read")) <= 1
        /\ \A i \in Controls, j \in Sites("notify_read") : i < j
        /\ (\E i \in Controls : ~Succeeded(log[i])) => exitCode = Some(1)

\* A run whose set command failed has exited 1 without a notify read.
C6_Witness ==
    /\ Exited /\ exitCode = Some(1)
    /\ IsSome(args.set)
    /\ \E i \in Controls : ~Succeeded(log[i])
    /\ Sites("notify_read") = {}

\* C7: every notify-send invocation comes right after a successful
\* brightness read of the notify step; a failed read of the notify step
\* ends the run with exit code 1 and without a notify-send invocation.
C7_NotifyNeedsRead ==
    /\ \A i \in Sites("notify_send") :
          /\ i > 1
          /\ log[i - 1].site = "notify_read"
          /\ Succeeded(log[i - 1])
    /\ \A i \in Sites("notify_read") :
          ~Succeeded(log[i]) =>
              /\ Exited /\ exitCode = Some(1)
              /\ Sites("notify_send") = {}

\* A --get run whose query could not be spawned has exited 1 with nothing
\* but the failed read in its log.
C7_Witness ==
    /\ args.get
    /\ Exited /\ exitCode = Some(1)
    /\ Len(log) = 1
    /\ log[1].site = "notify_read" /\ log[1].out.status = "spawn_failed"

\* C8 as stated: the reader returns None whenever the query cannot be
\* started, exits non-zero, or prints something that is not a non-negative
\* decimal number; it returns a value only for a successful query printing
\* a non-negative decimal number, and the value is that number rounded to
\* the nearest integer.
C8_ReaderNonNegativeOnly ==
    pc = "adjust_cmd" =>
        LET s == Trim(query.stdout) IN
        /\ (~QuerySucceeded(query) \/ ~IsUnsignedDecimal(s)) => current = None
        /\ IsSome(current) =>
              /\ QuerySucceeded(query)
              /\ IsUnsignedDecimal(s)
              /\ IsNearest(s, Unwrap(current))

\* C8 amended: the reader returns None exactly when the query cannot be
\* started, exits non-zero, or prints something that, trimmed of white
\* space, is not a number (an optional sign, digits, an optional point).  A
\* negative number is accepted and read as 0; a non-negative number is
\* rounded to the nearest integer and capped at 255.
C8_ReaderSaturating ==
    pc = "adjust_cmd" =>
        LET s == Trim(query.stdout)
            u == IF s # <<>> /\ Head(s) \in {"+", "-"} THEN Tail(s) ELSE s
        IN
        /\ current = None <=> (~QuerySucceeded(query) \/ ~IsSignedDecimal(s))
        /\ IsSome(current) =>
              LET n == Unwrap(current) IN
              /\ n \in 0..U8_MAX
              /\ Head(s) = "-" => n = 0
              /\ (Head(s) # "-" /\ n < U8_MAX) => IsNearest(u, n)
              /\ (Head(s) # "-" /\ n = U8_MAX) => IsAtLeastNear(u, n)

\* The reader has returned 0 for the output "-7.5".
C8_Witness ==
    /\ pc = "adjust_cmd"
    /\ QuerySucceeded(query)
    /\ query.stdout = <<"-", "7", ".", "5">>
    /\ current = Some(0)

\* C9: the icon of every notification issued is the bucket of the percentage
\* in its summary: low for 0-32, medium for 33-65, high for 66-100; and over
\* 0..100 the icon function is exactly that partition.
C9_IconBuckets ==
    /\ \A i \in Sites("notify_send") :
          LET p == log[i].summary_pct IN
          /\ p \in 0..32 => log[i].icon = "display-brightness-low-symbolic"
          /\ p \in 33..65 => log[i].icon = "display-brightness-medium-symbolic"
          /\ p \in 66..100 => log[i].icon = "display-brightness-high-symbolic"
    /\ Sites("notify_send") # {} => \A p \in 0..100 : icon_for(p) = IconExpected(p)

\* A notification showing 33% with the medium icon has been issued.
C9_Witness ==
    \E i \in Sites("notify_send") :
        /\ log[i].summary_pct = 33
        /\ log[i].icon = "display-brightness-medium-symbolic"

\* C10: the value of every backlight control command issued lies in 0..100.
C10_ControlValueInRange ==
    \A i \in Controls : log[i].value \in 0..100

====
